---- MODULE Spec2Model ----
(***************************************************************************)
(* Nala health coach: session-progress tracking (backend /session routes   *)
(* and the overview screen's unlock logic) and the chat message pipeline   *)
(* (backend /chat/message route and its persistence).                      *)
(*                                                                         *)
(* Time is counted in whole days.  A timestamp column that is NULL in the  *)
(* database is the value NULL below.                                       *)
(***************************************************************************)
EXTENDS Integers, Sequences, FiniteSets, TLC

\* ------------------------------------------------------------------ bounds
MaxClock == 8
MaxCalls == 2
MaxStageInput == 5
MaxRequests == 2
MaxHandlers == 2
MaxTurns == 11
MaxCorpus == 4
MaxSends == 2

\* ------------------------------------------------------- program constants
UnlockDelayDays == 7
NumSessions == 4
HistoryLimit == 10
\* the chat screen sends session_number: 1 with every message
ChatSessionNumber == 1
\* VectorSearch.search(query, limit=3, min_similarity=0.4); similarities are
\* counted in hundredths
SearchLimit == 3
MinSimilarity == 40

NULL == 0 - 1
Users == {"u1", "u2"}
\* the chat screen's userId
ChatUser == "u1"
\* session_number is an unvalidated int query parameter: one value below the
\* program's range and the values up to MaxStageInput are sent.
StageInputs == 0..MaxStageInput
Sessions == 1..NumSessions
Requests == 1..MaxRequests
\* threads of the server's pool that serve POST /session/complete
Handlers == 1..MaxHandlers

VARIABLES
    progress,   \* rows of the session_progress table
    now,        \* the wall clock, in days
    calls,      \* number of POST /session/complete requests served
    resp,       \* body of the last POST /session/complete response
    conversations,  \* conversations table: id -> message_count
    messages,       \* messages table, in created_at order
    reqs,           \* the POST /chat/message requests and their clients
    handlers,       \* POST /session/complete requests served concurrently
    chatbot,        \* UnifiedRAGChatbot.conversation_history (one instance)
    corpus,         \* coaching_conversations rows, in insertion order: each
                    \* row's similarity to the query being searched
    results,        \* the rows (by position) the last search returned
    screen,         \* ChatScreen: its React state and its requests in flight
    overview        \* ChatOverviewScreen: its React state and the route

progressVars == <<progress, now, calls, resp, handlers>>
chatVars == <<conversations, messages, reqs, chatbot>>
searchVars == <<corpus, results>>
screenVars == <<screen, overview>>
otherVars == <<corpus, results, screen, overview>>
vars == <<progress, now, calls, resp, conversations, messages, reqs, handlers,
          chatbot, corpus, results, screen, overview>>

\* ------------------------------------------------ session_progress (backend)

\* .first(): the matching row with the lowest primary key
First(rows) == CHOOSE r \in rows : \A q \in rows : r.id <= q.id

\* db.query(SessionProgress).filter_by(user_id=..., session_number=...)
FilterBy(rows, user, n) ==
    {r \in rows : r.user_id = user /\ r.session_number = n}

\* SessionProgress(user_id=..., session_number=..., unlocked_at=...)
SessionProgress(rows, user, n, unlocked) ==
    [id |-> Cardinality(rows) + 1, user_id |-> user, session_number |-> n,
     completed_at |-> NULL, unlocked_at |-> unlocked]

\* SessionProgress.mark_complete: the row after the call
mark_complete(row, t) == [row EXCEPT !.completed_at = t]

\* SessionProgress.mark_complete: the value it returns
next_unlock(row, delay) == row.completed_at + delay

\* variant: the next session's unlock time is always overwritten
OverwriteUnlock(existing, unlock_time) == unlock_time

\* the unlocked_at a pre-existing next-session row is left with
KeepOrSetUnlock(existing, unlock_time) ==
    IF existing = NULL THEN unlock_time ELSE existing

\* POST /session/complete: the table after the handler's commit
mark_session_complete(rows, user, n, t) ==
    LET found == FilterBy(rows, user, n)
        cur == IF found = {} THEN SessionProgress(rows, user, n, NULL)
               ELSE First(found)
        done == mark_complete(cur, t)
        rows1 == (rows \ {cur}) \cup {done}
        unlock_time_for_next == next_unlock(done, UnlockDelayDays)
        next_session_number == n + 1
        nfound == FilterBy(rows1, user, next_session_number)
    IN  IF next_session_number <= NumSessions
        THEN IF nfound = {}
             THEN rows1 \cup {SessionProgress(rows1, user, next_session_number,
                                              unlock_time_for_next)}
             ELSE LET nx == First(nfound)
                  IN (rows1 \ {nx}) \cup
                     {[nx EXCEPT !.unlocked_at =
                          KeepOrSetUnlock(nx.unlocked_at, unlock_time_for_next)]}
        ELSE rows1

NoResp == [user_id |-> "none", session_number |-> NULL,
           completed_at |-> NULL, next_unlocked_at |-> NULL]

\* the response body: completed_session and next_session
CompleteResponse(rows, user, n) ==
    LET c == First(FilterBy(rows, user, n))
        nf == FilterBy(rows, user, n + 1)
    IN  [user_id |-> user, session_number |-> n,
         completed_at |-> c.completed_at,
         next_unlocked_at |-> IF nf = {} THEN NULL ELSE First(nf).unlocked_at]

\* a pool thread's db session: what its queries returned and what it holds
\* pending until db.commit().  cur_id / next_id are the primary key of the row
\* a query returned, 0 when it returned none (a new object was db.add()ed)
\* and NULL when the query was not made.
IdleHandler == [pc |-> "idle", user_id |-> "none", session_number |-> NULL,
                cur_id |-> NULL, completed_at |-> NULL,
                next_id |-> NULL, next_unlocked_at |-> NULL]

\* variant: the table is created without the UNIQUE constraint
UniqueViolatedNever(rows, user, n) == FALSE

\* UNIQUE(user_id, session_number): an INSERT of this key is refused
UniqueViolated(rows, user, n) == FilterBy(rows, user, n) # {}

\* the UPDATE of a row the session loaded, by primary key
UpdateRow(rows, id, completed, unlocked) ==
    {IF r.id = id
     THEN [r EXCEPT !.completed_at = IF completed = NULL THEN @ ELSE completed,
                    !.unlocked_at = IF unlocked = NULL THEN @ ELSE unlocked]
     ELSE r : r \in rows}

\* db.commit(): the INSERTs and UPDATEs the db session holds, in the order
\* the objects were added
FlushPending(rows, h) ==
    LET rows1 == IF h.cur_id = 0
                 THEN rows \cup {mark_complete(
                          SessionProgress(rows, h.user_id, h.session_number,
                                          NULL), h.completed_at)}
                 ELSE UpdateRow(rows, h.cur_id, h.completed_at, NULL)
    IN  IF h.next_id = NULL THEN rows1
        ELSE IF h.next_id = 0
        THEN rows1 \cup {SessionProgress(rows1, h.user_id,
                              h.session_number + 1, h.next_unlocked_at)}
        ELSE UpdateRow(rows1, h.next_id, NULL, h.next_unlocked_at)

\* GET /session/progress/{user_id}
getUserProgress(user) == {r \in progress : r.user_id = user}

\* ----------------------------------------------- overview screen (frontend)

\* variant: the comparison with the unlock date is reversed
isSessionUnlockedReversed(prog, sessionNumber, t) ==
    IF sessionNumber = 1 THEN TRUE
    ELSE LET found == {p \in prog : p.session_number = sessionNumber - 1}
         IN  IF found = {} THEN FALSE
             ELSE LET record == First(found)
                  IN  IF record.unlocked_at = NULL THEN FALSE
                      ELSE t <= record.unlocked_at

\* variant: session 1 goes through the predecessor lookup like the others
isSessionUnlockedNoShortcut(prog, sessionNumber, t) ==
    LET found == {p \in prog : p.session_number = sessionNumber - 1}
    IN  IF found = {} THEN FALSE
        ELSE LET record == First(found)
             IN  IF record.unlocked_at = NULL THEN FALSE
                 ELSE t >= record.unlocked_at

isSessionUnlocked(prog, sessionNumber, t) ==
    IF sessionNumber = 1 THEN TRUE
    ELSE LET found == {p \in prog : p.session_number = sessionNumber - 1}
         IN  IF found = {} THEN FALSE
             ELSE LET record == First(found)
                  IN  IF record.unlocked_at = NULL THEN FALSE
                      ELSE t >= record.unlocked_at

isSessionComplete(prog, sessionNumber) ==
    LET found == {p \in prog : p.session_number = sessionNumber}
    IN  IF found = {} THEN FALSE
        ELSE First(found).completed_at # NULL

\* getUnlockCountdown: the text for a difference of diffDays whole days
CountdownText(diffDays) ==
    IF diffDays > 1 THEN [text |-> "Unlocks in N days", days |-> diffDays]
    ELSE IF diffDays = 1 THEN [text |-> "Unlocks tomorrow", days |-> 1]
    ELSE IF diffDays = 0 THEN [text |-> "Unlocks today", days |-> 0]
    ELSE [text |-> "Unlocked", days |-> 0]

\* getUnlockCountdown(sessionNumber); null is the text "none"
getUnlockCountdown(prog, sessionNumber, t) ==
    IF sessionNumber = 1 THEN [text |-> "none", days |-> 0]
    ELSE LET found == {p \in prog : p.session_number = sessionNumber - 1}
         IN  IF found = {} THEN [text |-> "Locked", days |-> 0]
             ELSE LET prevSession == First(found)
                  IN  IF prevSession.unlocked_at = NULL
                      THEN [text |-> "Locked", days |-> 0]
                      ELSE CountdownText(prevSession.unlocked_at - t)

isUnlocked(user, k) == isSessionUnlocked(getUserProgress(user), k, now)
isCompleted(user, k) == isSessionComplete(getUserProgress(user), k)

\* ------------------------------------------------- chat pipeline (backend)

\* request.conversation_id when the client sends none
None == 0

\* variant: the user message is saved before the reply is generated
StepAfterSaveFirst(step) ==
    CASE step = "get_conversation" -> "history"
      [] step = "history" -> "save_user"
      [] step = "save_user" -> "generate"
      [] step = "generate" -> "save_assistant"
      [] step = "save_assistant" -> "respond"
      [] step = "respond" -> "done"

\* variant: the response is returned before the two messages are saved
StepAfterRespondFirst(step) ==
    CASE step = "get_conversation" -> "history"
      [] step = "history" -> "generate"
      [] step = "generate" -> "respond"
      [] step = "respond" -> "save_user"
      [] step = "save_user" -> "save_assistant"
      [] step = "save_assistant" -> "done"

\* send_message: the order of its steps
StepAfter(step) ==
    CASE step = "get_conversation" -> "history"
      [] step = "history" -> "generate"
      [] step = "generate" -> "save_user"
      [] step = "save_user" -> "save_assistant"
      [] step = "save_assistant" -> "respond"
      [] step = "respond" -> "done"

InFlight == {"get_conversation", "history", "generate", "save_user",
             "save_assistant", "respond"}
Terminal == {"done", "failed_generation", "failed_persistence", "crashed"}

\* what a request that raised ends with
NoError == [kind |-> "none", provider |-> "none", cause |-> "none"]

IdleReq == [pc |-> "idle", user_id |-> "none", session_number |-> NULL,
            conversation_id |-> None, history |-> <<>>,
            session_complete |-> FALSE, delivered |-> FALSE,
            marked |-> FALSE,
            message |-> "none", retrieval |-> "none", outcomes |-> <<>>,
            prompt |-> <<>>, provider_calls |-> 0, error |-> NoError,
            sources |-> <<>>]

\* the message the chat screen sends on mount, and any text the user types
StartSentinel == "[START_SESSION]"
UserText == "text"

\* self.retrieve(user_message): examples came back, none cleared
\* min_similarity, or the embedding call / the vector database raised
RetrievalOutcomes == {"found", "empty", "unavailable"}

\* the answers the provider would give to a first and to a second call of
\* one request: a reply ("ok"), a timeout or rate limit ("transient"), or an
\* error such as invalid credentials ("fatal"); what a second call would get
\* matters after a transient first answer only
ProviderAnswers ==
    {<<"ok", "ok">>, <<"fatal", "ok">>, <<"transient", "ok">>,
     <<"transient", "transient">>, <<"transient", "fatal">>}

\* self.model_info['provider']
ModelProvider == "anthropic"

\* RequestAdapter.format_conversation_history: role and content only
format_conversation_history(msgs) ==
    [i \in 1..Len(msgs) |-> [role |-> msgs[i].role, req |-> msgs[i].req]]

\* variant: the chatbot keeps the history it already holds
SetConversationHistoryKeepOld(held, conversation_history) == held

\* AIService.generate_response, step 1
SetConversationHistory(held, conversation_history) == conversation_history

\* the similarities (in hundredths) of the examples a successful search
\* returns, as in the listing's example results
FoundExamples == <<85, 78, 72>>

\* self.retrieve(user_message): the rows VectorSearch.search returned
retrieve(retrieval) == IF retrieval = "found" THEN FoundExamples ELSE <<>>

\* variant: building the context fails when no example was retrieved
generate_responseNeedsExamples(held, r, retrieval, outcomes) ==
    IF retrieval # "found"
    THEN [ok |-> FALSE, provider_calls |-> 0, conversation_history |-> held,
          sources |-> <<>>,
          error |-> [kind |-> "unhandled", provider |-> "none",
                     cause |-> "retrieval"]]
    ELSE IF outcomes[1] # "ok"
    THEN [ok |-> FALSE, provider_calls |-> 1, conversation_history |-> held,
          sources |-> <<>>,
          error |-> [kind |-> "unhandled", provider |-> "none",
                     cause |-> outcomes[1]]]
    ELSE [ok |-> TRUE, provider_calls |-> 1,
          conversation_history |->
              held \o <<[role |-> "user", req |-> r],
                        [role |-> "assistant", req |-> r]>>,
          sources |-> retrieve(retrieval),
          error |-> NoError]

\* UnifiedRAGChatbot.generate_response on the history it holds: retrieve,
\* one provider call, then the two appends.  An exception raised by retrieve
\* or by the provider call leaves the method at that line.
generate_response(held, r, retrieval, outcomes) ==
    IF retrieval = "unavailable"
    THEN [ok |-> FALSE, provider_calls |-> 0, conversation_history |-> held,
          sources |-> <<>>,
          error |-> [kind |-> "unhandled", provider |-> "none",
                     cause |-> "retrieval"]]
    ELSE IF outcomes[1] # "ok"
    THEN [ok |-> FALSE, provider_calls |-> 1, conversation_history |-> held,
          sources |-> <<>>,
          error |-> [kind |-> "unhandled", provider |-> "none",
                     cause |-> outcomes[1]]]
    ELSE [ok |-> TRUE, provider_calls |-> 1,
          conversation_history |->
              held \o <<[role |-> "user", req |-> r],
                        [role |-> "assistant", req |-> r]>>,
          sources |-> retrieve(retrieval),
          error |-> NoError]

\* ChatResponse.metadata.source_count for a reply built from these sources
source_count(sources) == Len(sources)

\* the rows of one conversation, in created_at order
ConversationMessages(msgs, conv) ==
    LET idx == {i \in 1..Len(msgs) : msgs[i].conversation_id = conv}
        nth[k \in 0..Cardinality(idx)] ==
            IF k = 0 THEN <<>>
            ELSE LET i == CHOOSE j \in idx :
                            Cardinality({m \in idx : m <= j}) = k
                 IN  Append(nth[k - 1], msgs[i])
    IN  nth[Cardinality(idx)]

\* SELECT * FROM messages WHERE conversation_id=... ORDER BY created_at LIMIT n
get_conversation_history(msgs, conv, limit) ==
    LET all == ConversationMessages(msgs, conv)
    IN  IF Len(all) <= limit THEN all ELSE SubSeq(all, 1, limit)

\* DatabaseService.create_message: one commit holds the insert and the
\* message_count increment
create_message(msgs, conv, role, r) ==
    Append(msgs, [conversation_id |-> conv, role |-> role, req |-> r])

increment_message_count(convs, conv) ==
    [convs EXCEPT ![conv] = @ + 1]

TurnsOf(r, role) ==
    {i \in 1..Len(messages) : messages[i].req = r /\ messages[i].role = role}

\* ------------------------------------------------------------------ actions

\* the vector database is empty and nothing has been searched
\* ChatScreen as constructed: useState initial values, nothing in flight
InitialScreen ==
    [mounted |-> FALSE, health |-> "none", status |-> "none",
     backendConnected |-> "null", sessionComplete |-> FALSE,
     isLoading |-> FALSE, input |-> "", conversationId |-> "",
     messages |-> <<>>, pending |-> {}, sent |-> 0]

\* ChatOverviewScreen as constructed
InitialOverview ==
    [fetch |-> "none", failed |-> FALSE, loading |-> TRUE, progress |-> {},
     alert |-> "", route |-> "ChatOverview", week |-> NULL]

InitOther ==
    /\ corpus = <<>>
    /\ results = <<>>
    /\ screen = InitialScreen
    /\ overview = InitialOverview

Init ==
    /\ progress = {}
    /\ now = 0
    /\ calls = 0
    /\ resp = NoResp
    /\ conversations = <<>>
    /\ messages = <<>>
    /\ reqs = [r \in Requests |-> IdleReq]
    /\ handlers = [h \in Handlers |-> IdleHandler]
    /\ chatbot = <<>>
    /\ InitOther

MarkSessionComplete(user, n) ==
    /\ calls < MaxCalls
    /\ progress' = mark_session_complete(progress, user, n, now)
    /\ resp' = CompleteResponse(progress', user, n)
    /\ calls' = calls + 1
    /\ UNCHANGED <<now, handlers, chatVars, otherVars>>

Tick ==
    /\ now < MaxClock
    /\ now' = now + 1
    /\ UNCHANGED <<progress, calls, resp, handlers, chatVars, otherVars>>

NextProgress ==
    \/ \E u \in Users, n \in StageInputs : MarkSessionComplete(u, n)
    \/ Tick

SpecProgress == Init /\ [][NextProgress]_vars

\* POST /session/complete served by pool threads, each with its own db
\* session: the first query and progress.mark_complete()
BeginComplete(h, user, n) ==
    /\ handlers[h].pc = "idle"
    /\ LET found == FilterBy(progress, user, n)
       IN  handlers' = [handlers EXCEPT ![h] =
               [@ EXCEPT !.pc = "query_next",
                         !.user_id = user,
                         !.session_number = n,
                         !.cur_id = IF found = {} THEN 0 ELSE First(found).id,
                         !.completed_at = now]]
    /\ UNCHANGED <<progress, now, calls, resp, chatVars, otherVars>>

\* the query for the next session's row and what is done with it
QueryNext(h) ==
    /\ handlers[h].pc = "query_next"
    /\ LET me == handlers[h]
           next_session_number == me.session_number + 1
           unlock_time_for_next == me.completed_at + UnlockDelayDays
           nfound == FilterBy(progress, me.user_id, next_session_number)
       IN  handlers' = [handlers EXCEPT ![h] =
               IF next_session_number <= NumSessions
               THEN IF nfound = {}
                    THEN [@ EXCEPT !.pc = "commit", !.next_id = 0,
                               !.next_unlocked_at = unlock_time_for_next]
                    ELSE [@ EXCEPT !.pc = "commit",
                               !.next_id = First(nfound).id,
                               !.next_unlocked_at =
                                   IF First(nfound).unlocked_at = NULL
                                   THEN unlock_time_for_next ELSE NULL]
               ELSE [@ EXCEPT !.pc = "commit"]]
    /\ UNCHANGED <<progress, now, calls, resp, chatVars, otherVars>>

\* db.commit(): refused as a whole when one of its INSERTs breaks the
\* UNIQUE constraint
Commit(h) ==
    /\ handlers[h].pc = "commit"
    /\ LET me == handlers[h]
           refused ==
               \/ me.cur_id = 0 /\ UniqueViolated(progress, me.user_id,
                                                   me.session_number)
               \/ me.next_id = 0 /\ UniqueViolated(progress, me.user_id,
                                                    me.session_number + 1)
       IN  IF refused
           THEN /\ handlers' = [handlers EXCEPT ![h].pc = "integrity_error"]
                /\ UNCHANGED progress
           ELSE /\ handlers' = [handlers EXCEPT ![h].pc = "done"]
                /\ progress' = FlushPending(progress, me)
    /\ UNCHANGED <<now, calls, resp, chatVars, otherVars>>

NextRace ==
    \/ \E h \in Handlers, u \in Users, n \in StageInputs :
          BeginComplete(h, u, n)
    \/ \E h \in Handlers : QueryNext(h)
    \/ \E h \in Handlers : Commit(h)

SpecRace == Init /\ [][NextRace]_vars

\* STEP 1: a request arrives; get_or_create_conversation commits a new
\* conversations row when the client sent no conversation_id
\* (requests are numbered in the order they arrive)
GetOrCreateConversation(r, user, n, cid, message) ==
    /\ reqs[r].pc = "idle"
    /\ \A q \in Requests : q < r => reqs[q].pc # "idle"
    /\ cid = None \/ cid \in DOMAIN conversations
    /\ LET conv == IF cid = None THEN Len(conversations) + 1 ELSE cid
       IN  /\ conversations' = IF cid = None THEN Append(conversations, 0)
                               ELSE conversations
           /\ reqs' = [reqs EXCEPT ![r] =
                          [@ EXCEPT !.pc = StepAfter("get_conversation"),
                                    !.user_id = user,
                                    !.session_number = n,
                                    !.message = message,
                                    !.conversation_id = conv]]
    /\ UNCHANGED <<messages, chatbot, progressVars, otherVars>>

\* STEP 2: read the history
GetHistory(r) ==
    /\ reqs[r].pc = "history"
    /\ reqs' = [reqs EXCEPT ![r] =
                   [@ EXCEPT !.pc = StepAfter("history"),
                             !.history = format_conversation_history(
                                 get_conversation_history(messages,
                                     reqs[r].conversation_id, HistoryLimit))]]
    /\ UNCHANGED <<conversations, messages, chatbot, progressVars, otherVars>>

\* STEP 3: ai_service.generate_response hands the history to the chatbot and
\* calls it; the coroutine has no await inside, so no other request runs
\* between the two.  It returns a reply, which may carry session_complete,
\* or raises.
Generate(r, retrieval, outcomes, complete) ==
    /\ reqs[r].pc = "generate"
    /\ LET held == SetConversationHistory(chatbot, reqs[r].history)
           out == generate_response(held, r, retrieval, outcomes)
       IN  /\ chatbot' = out.conversation_history
           /\ reqs' = [reqs EXCEPT ![r] =
                  [@ EXCEPT !.pc = IF out.ok THEN StepAfter("generate")
                                   ELSE "failed_generation",
                            !.session_complete = out.ok /\ complete,
                            !.retrieval = retrieval,
                            !.outcomes = outcomes,
                            !.prompt = held,
                            !.provider_calls = out.provider_calls,
                            !.sources = out.sources,
                            !.error = out.error]]
    /\ UNCHANGED <<conversations, messages, progressVars, otherVars>>

\* variant: the row is committed on its own and the count in a second
\* commit, which is the one that can fail
AddMessageTwoCommits(r, step, role, ok) ==
    /\ reqs[r].pc = step
    /\ messages' = create_message(messages, reqs[r].conversation_id, role, r)
    /\ IF ok
       THEN /\ conversations' =
                  increment_message_count(conversations, reqs[r].conversation_id)
            /\ reqs' = [reqs EXCEPT ![r].pc = StepAfter(step)]
       ELSE /\ reqs' = [reqs EXCEPT ![r].pc = "failed_persistence"]
            /\ UNCHANGED conversations
    /\ UNCHANGED <<chatbot, progressVars, otherVars>>

\* STEPS 4 and 5: add_message commits one row and the count, or the commit
\* fails, is rolled back and the exception ends the request
AddMessage(r, step, role, ok) ==
    /\ reqs[r].pc = step
    /\ IF ok
       THEN /\ messages' = create_message(messages, reqs[r].conversation_id, role, r)
            /\ conversations' =
                  increment_message_count(conversations, reqs[r].conversation_id)
            /\ reqs' = [reqs EXCEPT ![r].pc = StepAfter(step)]
       ELSE /\ reqs' = [reqs EXCEPT ![r].pc = "failed_persistence"]
            /\ UNCHANGED <<conversations, messages>>
    /\ UNCHANGED <<chatbot, progressVars, otherVars>>

SaveUserMessage(r, ok) == AddMessage(r, "save_user", "user", ok)

SaveAssistantMessage(r, ok) == AddMessage(r, "save_assistant", "assistant", ok)

\* STEP 7: the ChatResponse reaches the client
Return(r) ==
    /\ reqs[r].pc = "respond"
    /\ reqs' = [reqs EXCEPT ![r] =
                   [@ EXCEPT !.pc = StepAfter("respond"), !.delivered = TRUE]]
    /\ UNCHANGED <<conversations, messages, chatbot, progressVars, otherVars>>

\* the API process dies in the middle of a request
Crash(r) ==
    /\ reqs[r].pc \in InFlight
    /\ reqs' = [reqs EXCEPT ![r].pc = "crashed"]
    /\ UNCHANGED <<conversations, messages, chatbot, progressVars, otherVars>>

\* the client, on a response with session_complete, posts /session/complete
ClientMarkComplete(r) ==
    /\ reqs[r].delivered
    /\ reqs[r].session_complete
    /\ ~reqs[r].marked
    /\ calls < MaxCalls
    /\ progress' = mark_session_complete(progress, reqs[r].user_id,
                                         reqs[r].session_number, now)
    /\ resp' = CompleteResponse(progress', reqs[r].user_id, reqs[r].session_number)
    /\ calls' = calls + 1
    /\ reqs' = [reqs EXCEPT ![r].marked = TRUE]
    /\ UNCHANGED <<now, handlers, conversations, messages, chatbot,
                   otherVars>>

NextChat ==
    \/ \E r \in Requests, cid \in {None} \cup (1..MaxRequests) :
            GetOrCreateConversation(r, ChatUser, ChatSessionNumber, cid,
                                    UserText)
    \/ \E r \in Requests : GetHistory(r)
    \/ \E r \in Requests, first \in {"ok", "fatal"} :
            Generate(r, "found", <<first>>, FALSE)
    \/ \E r \in Requests, ok \in BOOLEAN : SaveUserMessage(r, ok)
    \/ \E r \in Requests, ok \in BOOLEAN : SaveAssistantMessage(r, ok)
    \/ \E r \in Requests : Return(r)
    \/ \E r \in Requests : Crash(r)

SpecChat == Init /\ [][NextChat]_vars

\* requests whose reply may carry session_complete, and the client that
\* then posts /session/complete
NextCompletion ==
    \/ \E r \in Requests, cid \in {None} \cup (1..MaxRequests) :
            GetOrCreateConversation(r, ChatUser, ChatSessionNumber, cid,
                                    UserText)
    \/ \E r \in Requests : GetHistory(r)
    \/ \E r \in Requests, first \in {"ok", "fatal"}, complete \in BOOLEAN :
            Generate(r, "found", <<first>>, complete)
    \/ \E r \in Requests, ok \in BOOLEAN : SaveUserMessage(r, ok)
    \/ \E r \in Requests, ok \in BOOLEAN : SaveAssistantMessage(r, ok)
    \/ \E r \in Requests : Return(r)
    \/ \E r \in Requests : ClientMarkComplete(r)

SpecCompletion == Init /\ [][NextCompletion]_vars

\* the database after an earlier exchange in each of two conversations; the
\* turns of the earlier request on conversation c carry the tag 0 - c
SeededMessages ==
    <<[conversation_id |-> 1, role |-> "user", req |-> 0 - 1],
      [conversation_id |-> 1, role |-> "assistant", req |-> 0 - 1],
      [conversation_id |-> 2, role |-> "user", req |-> 0 - 2],
      [conversation_id |-> 2, role |-> "assistant", req |-> 0 - 2]>>

InitSeeded ==
    /\ progress = {}
    /\ now = 0
    /\ calls = 0
    /\ resp = NoResp
    /\ conversations = <<2, 2>>
    /\ messages = SeededMessages
    /\ reqs = [r \in Requests |-> IdleReq]
    /\ handlers = [h \in Handlers |-> IdleHandler]
    /\ chatbot = <<>>
    /\ InitOther

\* requests that continue one of the stored conversations or open a new one
NextSeeded ==
    \/ \E r \in Requests, cid \in {None, 1, 2} :
            GetOrCreateConversation(r, ChatUser, ChatSessionNumber, cid,
                                    UserText)
    \/ \E r \in Requests : GetHistory(r)
    \/ \E r \in Requests, first \in {"ok", "fatal"} :
            Generate(r, "found", <<first>>, FALSE)
    \/ \E r \in Requests : SaveUserMessage(r, TRUE)
    \/ \E r \in Requests : SaveAssistantMessage(r, TRUE)
    \/ \E r \in Requests : Return(r)

SpecSeeded == InitSeeded /\ [][NextSeeded]_vars

\* requests with every outcome of retrieval and of the provider calls
NextGeneration ==
    \/ \E r \in Requests, cid \in {None} \cup (1..MaxRequests) :
            GetOrCreateConversation(r, ChatUser, ChatSessionNumber, cid,
                                    UserText)
    \/ \E r \in Requests : GetHistory(r)
    \/ \E r \in Requests, retrieval \in RetrievalOutcomes,
          outcomes \in ProviderAnswers :
            Generate(r, retrieval, outcomes, FALSE)
    \/ \E r \in Requests : SaveUserMessage(r, TRUE)
    \/ \E r \in Requests : SaveAssistantMessage(r, TRUE)
    \/ \E r \in Requests : Return(r)

SpecGeneration == Init /\ [][NextGeneration]_vars

\* the chat screen's requests: the start sentinel on mount, which opens the
\* conversation, then the user's messages
NextGreeting ==
    \/ \E r \in Requests :
            GetOrCreateConversation(r, ChatUser, ChatSessionNumber, None,
                                    StartSentinel)
    \/ \E r \in Requests, cid \in {None} \cup (1..MaxRequests) :
            GetOrCreateConversation(r, ChatUser, ChatSessionNumber, cid,
                                    UserText)
    \/ \E r \in Requests : GetHistory(r)
    \/ \E r \in Requests, first \in {"ok", "fatal"} :
            Generate(r, "found", <<first>>, FALSE)
    \/ \E r \in Requests : SaveUserMessage(r, TRUE)
    \/ \E r \in Requests : SaveAssistantMessage(r, TRUE)
    \/ \E r \in Requests : Return(r)

SpecGreeting == Init /\ [][NextGreeting]_vars

\* a messages table left by earlier requests on two conversations: where[i]
\* is the conversation of the i-th row in created_at order; within a
\* conversation user and assistant rows alternate, and the rows of its k-th
\* exchange carry the tag 0 - k
StoredMessages(where) ==
    [i \in DOMAIN where |->
        LET pos == Cardinality({j \in 1..i : where[j] = where[i]})
        IN  [conversation_id |-> where[i],
             role |-> IF pos % 2 = 1 THEN "user" ELSE "assistant",
             req |-> 0 - ((pos + 1) \div 2)]]

InitHistory ==
    /\ progress = {}
    /\ now = 0
    /\ calls = 0
    /\ resp = NoResp
    /\ \E len \in 0..MaxTurns : \E where \in [1..len -> {1, 2}] :
          /\ messages = StoredMessages(where)
          /\ conversations =
                 <<Cardinality({i \in 1..len : where[i] = 1}),
                   Cardinality({i \in 1..len : where[i] = 2})>>
    /\ reqs = [r \in Requests |-> IdleReq]
    /\ handlers = [h \in Handlers |-> IdleHandler]
    /\ chatbot = <<>>
    /\ InitOther

\* requests on the stored conversations, up to the history read
NextHistory ==
    \/ \E r \in Requests, cid \in {1, 2} :
            GetOrCreateConversation(r, ChatUser, ChatSessionNumber, cid,
                                    UserText)
    \/ \E r \in Requests : GetHistory(r)

SpecHistory == InitHistory /\ [][NextHistory]_vars

\* ------------------------------------------------ vector search (AI backend)

\* similarities a stored example can have to the query: below the floor, at
\* it, and two values above it
Similarities == {MinSimilarity - 1, MinSimilarity, MinSimilarity + 10,
                 MinSimilarity + 20}

\* variant: the query has no WHERE clause
ClearsFloorAlways(similarity, min_similarity) == TRUE

\* WHERE 1 - (participant_embedding <=> query) >= min_similarity
ClearsFloor(similarity, min_similarity) == similarity >= min_similarity

\* VectorSearch.search: every list the query can return.  ORDER BY distance
\* puts higher similarity first and names no second key, so rows of equal
\* similarity come in an order the database chooses; LIMIT keeps the first
\* `limit` rows of that order.
search(rows, limit, min_similarity) ==
    LET kept == {i \in DOMAIN rows : ClearsFloor(rows[i], min_similarity)}
        n == IF Cardinality(kept) <= limit THEN Cardinality(kept) ELSE limit
    IN  {res \in [1..n -> kept] :
            /\ \A a \in 1..n, b \in 1..n : a # b => res[a] # res[b]
            /\ \A a \in 1..n, b \in 1..n :
                   a < b => rows[res[a]] >= rows[res[b]]
            /\ \A i \in kept :
                   (\A a \in 1..n : res[a] # i)
                       => \A a \in 1..n : rows[res[a]] >= rows[i]}

\* an example is stored in coaching_conversations
InsertExample(similarity) ==
    /\ Len(corpus) < MaxCorpus
    /\ corpus' = Append(corpus, similarity)
    /\ UNCHANGED <<results, progressVars, chatVars, screenVars>>

\* VectorSearch.search(query) with the default limit and min_similarity
Search ==
    /\ \E res \in search(corpus, SearchLimit, MinSimilarity) : results' = res
    /\ UNCHANGED <<corpus, progressVars, chatVars, screenVars>>

NextSearch ==
    \/ \E similarity \in Similarities : InsertExample(similarity)
    \/ Search

SpecSearch == Init /\ [][NextSearch]_vars

\* ----------------------------------------------------- chat screen (frontend)
\* ChatScreen.tsx, with the completion lock (sessionComplete) that the
\* listing of the screen in docs/FRONTEND_SETUP.md adds to it.

\* the requests the screen can have in flight, named by the id of the
\* placeholder that waits for the reply
SendRequests == [id : 0..(2 * MaxSends), kind : {"greeting", "user"}]

\* the typing-indicator bubble both senders put in the list
Placeholder(id) ==
    [id |-> id, sender |-> "nala", text |-> "", isLoading |-> TRUE]

\* setMessages(prev => prev.map(msg => msg.id === id ? {...} : msg))
ReplacePlaceholder(msgs, id, text) ==
    [i \in DOMAIN msgs |->
        IF msgs[i].id = id
        THEN [msgs[i] EXCEPT !.text = text, !.isLoading = FALSE]
        ELSE msgs[i]]

\* fetchCompletionStatus: matching.some(s => s.completed_at)
CompletionStatus(data, week) ==
    \E s \in data : s.session_number = week /\ s.completed_at # NULL

\* sendInitialGreeting up to its await
StartGreeting(s) ==
    [s EXCEPT !.isLoading = TRUE,
              !.messages = <<Placeholder(0)>>,
              !.pending = @ \cup {[id |-> 0, kind |-> "greeting"]}]

\* sendInitialGreeting: catch (console.error) and finally
GreetingFailed(s, req) ==
    [s EXCEPT !.pending = @ \ {req},
              !.isLoading = FALSE]

\* sendInitialGreeting after its await returned data
GreetingSucceeded(s, req) ==
    [s EXCEPT !.pending = @ \ {req},
              !.conversationId = "c1",
              !.messages = <<[Placeholder(req.id) EXCEPT
                                !.text = "response", !.isLoading = FALSE]>>,
              !.isLoading = FALSE]

\* sendUserMessage after its await returned data
UserSendSucceeded(s, req, complete) ==
    [s EXCEPT !.pending = @ \ {req},
              !.conversationId = "c1",
              !.sessionComplete = @ \/ complete,
              !.messages = ReplacePlaceholder(@, req.id, "response"),
              !.isLoading = FALSE]

\* sendUserMessage: catch and finally
UserSendFailed(s, req) ==
    [s EXCEPT !.pending = @ \ {req},
              !.messages = ReplacePlaceholder(@, req.id,
                                              "Error connecting to NALA."),
              !.isLoading = FALSE]

\* the TextInput's editable prop
Editable(s) == ~s.isLoading /\ s.backendConnected # "false"

\* sendUserMessage's guard: if (!input.trim() || isLoading ||
\* sessionComplete) return
CanSend(s) == s.input # "" /\ ~s.isLoading /\ ~s.sessionComplete

\* the mount effect: init() and fetchCompletionStatus() start
MountChat ==
    /\ ~screen.mounted
    /\ screen' = [screen EXCEPT !.mounted = TRUE,
                                !.health = "pending",
                                !.status = "pending"]
    /\ UNCHANGED <<overview, searchVars, progressVars, chatVars>>

\* init() after chatAPI.testConnection() returned isConnected
TestConnectionReturns(isConnected) ==
    /\ screen.health = "pending"
    /\ LET s == [screen EXCEPT
                    !.health = "done",
                    !.backendConnected =
                        IF isConnected THEN "true" ELSE "false"]
       IN  screen' = IF isConnected /\ ~screen.sessionComplete
                     THEN StartGreeting(s)
                     ELSE s
    /\ UNCHANGED <<overview, searchVars, progressVars, chatVars>>

\* fetchCompletionStatus after GET /session/progress/{userId} returned
\* (ok) or threw
CompletionStatusReturns(ok) ==
    /\ screen.status = "pending"
    /\ screen' = [screen EXCEPT
                    !.status = "done",
                    !.sessionComplete =
                        IF ok
                        THEN CompletionStatus(getUserProgress(ChatUser),
                                              ChatSessionNumber)
                        ELSE @]
    /\ UNCHANGED <<overview, searchVars, progressVars, chatVars>>

\* onChangeText={setInput}
ChangeText(text) ==
    /\ screen.mounted
    /\ Editable(screen)
    /\ text # screen.input
    /\ screen' = [screen EXCEPT !.input = text]
    /\ UNCHANGED <<overview, searchVars, progressVars, chatVars>>

\* sendUserMessage, from the send button, the Enter key or
\* onSubmitEditing, up to its await
sendUserMessage ==
    /\ screen.mounted
    /\ screen.backendConnected # "false"
    /\ CanSend(screen)
    /\ screen.sent < MaxSends
    /\ LET id == 2 * (screen.sent + 1)
       IN  screen' = [screen EXCEPT
                !.input = "",
                !.messages = @ \o <<[id |-> id - 1, sender |-> "user",
                                     text |-> screen.input,
                                     isLoading |-> FALSE],
                                    Placeholder(id)>>,
                !.isLoading = TRUE,
                !.pending = @ \cup {[id |-> id, kind |-> "user"]},
                !.sent = @ + 1]
    /\ UNCHANGED <<overview, searchVars, progressVars, chatVars>>

\* chatAPI.sendMessage returns data (ok, with data.session_complete) or
\* throws, and the sender that awaited it runs to its end
SendMessageReturns(req, ok, complete) ==
    /\ req \in screen.pending
    /\ screen' =
        IF req.kind = "greeting"
        THEN IF ok THEN GreetingSucceeded(screen, req)
                   ELSE GreetingFailed(screen, req)
        ELSE IF ok THEN UserSendSucceeded(screen, req, complete)
                   ELSE UserSendFailed(screen, req)
    /\ UNCHANGED <<overview, searchVars, progressVars, chatVars>>

NextScreen ==
    \/ MarkSessionComplete(ChatUser, ChatSessionNumber)
    \/ MountChat
    \/ \E isConnected \in BOOLEAN : TestConnectionReturns(isConnected)
    \/ \E ok \in BOOLEAN : CompletionStatusReturns(ok)
    \/ \E text \in {"", UserText} : ChangeText(text)
    \/ sendUserMessage
    \/ \E req \in SendRequests, ok \in BOOLEAN, complete \in BOOLEAN :
            SendMessageReturns(req, ok, complete)

SpecScreen == Init /\ [][NextScreen]_vars

\* -------------------------------------------------- overview screen, mounted
\* ChatOverviewScreen.tsx; the repository holds a second version of the
\* screen whose cards have session locking turned off, and the card
\* handlers of both are modelled.

AlertText == "Couldn't load your session progress."

\* ApiService.getUserProgress(userId): the parsed body, or [] when fetch
\* throws or the status is not ok
ApiGetUserProgress(outcome, userId) ==
    IF outcome = "ok" THEN getUserProgress(userId) ELSE {}

\* fetchProgress up to its await; with no signed-in user it throws and
\* runs its catch and finally
fetchProgress(signedIn) ==
    /\ overview.fetch = "none"
    /\ overview' = IF signedIn
                   THEN [overview EXCEPT !.fetch = "pending"]
                   ELSE [overview EXCEPT !.fetch = "done",
                                         !.alert = AlertText,
                                         !.loading = FALSE]
    /\ UNCHANGED <<screen, searchVars, progressVars, chatVars>>

\* fetchProgress after ApiService.getUserProgress returned; outcome is
\* what fetch did inside it
GetUserProgressReturns(outcome) ==
    /\ overview.fetch = "pending"
    /\ overview' = [overview EXCEPT
                        !.fetch = "done",
                        !.failed = (outcome # "ok"),
                        !.progress = ApiGetUserProgress(outcome, ChatUser),
                        !.loading = FALSE]
    /\ UNCHANGED <<screen, searchVars, progressVars, chatVars>>

\* a session card of ChatOverviewScreen.tsx is pressed: disabled unless
\* the session is unlocked
PressCard(k) ==
    /\ ~overview.loading
    /\ overview.route = "ChatOverview"
    /\ isSessionUnlocked(overview.progress, k, now)
    /\ overview' = [overview EXCEPT !.route = "Chat", !.week = k]
    /\ UNCHANGED <<screen, searchVars, progressVars, chatVars>>

\* a session card of the version with locking turned off is pressed
PressCardLockingDisabled(k) ==
    /\ ~overview.loading
    /\ overview.route = "ChatOverview"
    /\ overview' = [overview EXCEPT !.route = "Chat", !.week = k]
    /\ UNCHANGED <<screen, searchVars, progressVars, chatVars>>

\* the chat screen's back arrow
GoBack ==
    /\ overview.route = "Chat"
    /\ overview' = [overview EXCEPT !.route = "ChatOverview"]
    /\ UNCHANGED <<screen, searchVars, progressVars, chatVars>>

NextOverview ==
    \/ \E n \in Sessions : MarkSessionComplete(ChatUser, n)
    \/ Tick
    \/ \E signedIn \in BOOLEAN : fetchProgress(signedIn)
    \/ \E outcome \in {"ok", "http_error", "network_error"} :
            GetUserProgressReturns(outcome)
    \/ \E k \in Sessions : PressCard(k)
    \/ \E k \in Sessions : PressCardLockingDisabled(k)
    \/ GoBack

SpecOverview == Init /\ [][NextOverview]_vars

\* ------------------------------------------------- session-progress claims

\* the user's row for session k, as a set (empty when there is none)
Own(user, k) == FilterBy(progress, user, k)

\* C1: once completed_at is set for a (user, session), a later
\* POST /session/complete for the same pair leaves the stored completed_at
\* unchanged and returns that same completed_at.
C1_MarkCompleteIdempotent ==
    [][\A r \in progress : (r.session_number \in Sessions /\ r.completed_at # NULL) =>
          /\ \E q \in progress' : q.id = r.id /\ q.completed_at = r.completed_at
          /\ (calls' # calls /\ resp'.user_id = r.user_id
                /\ resp'.session_number = r.session_number)
             => resp'.completed_at = r.completed_at]_vars

\* C5: for a session k > 1 whose own row has unlocked_at set, the session is
\* unlocked exactly when the clock has reached that row's unlocked_at.
C5_OwnRecordDecides ==
    \A u \in Users, k \in 2..NumSessions :
        (Own(u, k) # {} /\ First(Own(u, k)).unlocked_at # NULL)
        => (isUnlocked(u, k) <=> now >= First(Own(u, k)).unlocked_at)

\* C6: after session 1 is completed at time t, session 2 is locked at every
\* clock value before t + 7 days.
C6_LockedBeforeDelay ==
    \A u \in Users :
        (/\ Own(u, 1) # {}
         /\ First(Own(u, 1)).completed_at # NULL
         /\ now < First(Own(u, 1)).completed_at + UnlockDelayDays)
        => ~isUnlocked(u, 2)

\* C7: after session 1 is completed at time t, session 2 is unlocked once the
\* clock is past t + 7 days, with no further operation.
C7_UnlockedAfterDelay ==
    \A u \in Users :
        (/\ Own(u, 1) # {}
         /\ First(Own(u, 1)).completed_at # NULL
         /\ now > First(Own(u, 1)).completed_at + UnlockDelayDays)
        => isUnlocked(u, 2)

\* C8: a non-null unlocked_at stored on a row is never replaced by a later
\* time, whatever sequence of completions follows.
C8_UnlockNeverLater ==
    [][\A r \in progress : r.unlocked_at # NULL =>
          \E q \in progress' : /\ q.id = r.id
                               /\ q.unlocked_at # NULL
                               /\ q.unlocked_at <= r.unlocked_at]_vars

\* C8 witness: a session was completed again at a time whose unlock time
\* would be later than the one its successor already holds.
C8_Witness ==
    \E r \in progress, q \in progress :
        /\ q.user_id = r.user_id
        /\ q.session_number = r.session_number + 1
        /\ r.completed_at # NULL
        /\ q.unlocked_at # NULL
        /\ q.unlocked_at < r.completed_at + UnlockDelayDays

\* C9: a session that is unlocked stays unlocked across every completion and
\* every advance of the clock.
C9_NeverRelocks ==
    [][\A u \in Users, k \in Sessions :
          isUnlocked(u, k) => isUnlocked(u, k)']_vars

\* C9 witness: a session after the first is unlocked and a completion has been
\* recorded at or after the moment it unlocked.
C9_Witness ==
    \E u \in Users, k \in 2..NumSessions :
        /\ isUnlocked(u, k)
        /\ \E r \in progress :
              /\ r.completed_at # NULL
              /\ r.completed_at >= First(Own(u, k - 1)).unlocked_at

ConvOf(r) == reqs[r].conversation_id

\* C2: whichever step of a send-message request fails or crashes, the request
\* ends with both its user turn and its assistant turn recorded, or neither.
C2_BothOrNeither ==
    \A r \in Requests :
        reqs[r].pc \in Terminal
        => (TurnsOf(r, "user") = {} <=> TurnsOf(r, "assistant") = {})

C11_FirstSessionUnlocked == \A u \in Users : isUnlocked(u, 1)

\* a user without any row, and a user whose session-0 row unlocks later
C11_Witness ==
    /\ \E u \in Users : getUserProgress(u) = {} /\ isUnlocked(u, 1)
    /\ \E u \in Users :
          /\ \E p \in getUserProgress(u) :
                p.session_number = 0 /\ p.unlocked_at = NULL
          /\ isUnlocked(u, 1)

\* C13: a POST /session/complete whose session_number lies outside
\* 1..NumSessions is rejected: the call leaves every row as it was.
C13_OutOfRangeRejected ==
    [][(calls' # calls /\ resp'.session_number \notin Sessions)
          => progress' = progress]_vars

TurnsIn(conv) ==
    {[role |-> messages[i].role, req |-> messages[i].req] :
        i \in {j \in 1..Len(messages) : messages[j].conversation_id = conv}}

Generated(r) == reqs[r].retrieval # "none"

\* C15: a request whose retrieval failed (vector index unreachable) does not
\* fail: generation goes on with no examples and calls the provider.
C15_RetrievalFailureDegrades ==
    \A r \in Requests :
        (Generated(r) /\ reqs[r].retrieval = "unavailable")
            => (reqs[r].pc # "failed_generation"
                /\ reqs[r].provider_calls >= 1)

\* C16: a provider call that fails with a transient error is retried exactly
\* once: such a request makes two provider calls, no request makes more than
\* two, and the request does not fail when the second call succeeds.
C16_TransientRetriedOnce ==
    \A r \in Requests :
        /\ reqs[r].provider_calls <= 2
        /\ (Generated(r) /\ reqs[r].retrieval # "unavailable"
                /\ reqs[r].outcomes[1] = "transient")
              => (reqs[r].provider_calls = 2
                  /\ (reqs[r].outcomes[2] = "ok"
                         => reqs[r].pc # "failed_generation"))

\* C17: a provider call that fails with a non-transient error is not
\* retried (one provider call) and the request ends with GenerationFailed
\* carrying the provider's name and the cause.
C17_FatalSurfacedAsGenerationFailed ==
    \A r \in Requests :
        (Generated(r) /\ reqs[r].retrieval # "unavailable"
            /\ reqs[r].outcomes[1] = "fatal")
          => (reqs[r].provider_calls = 1
              /\ reqs[r].pc = "failed_generation"
              /\ reqs[r].error = [kind |-> "GenerationFailed",
                                  provider |-> ModelProvider,
                                  cause |-> "fatal"])

\* the request opened its conversation and no other request has used it
OnlyRequestOf(r) ==
    \A q \in Requests : q # r => ConvOf(q) # ConvOf(r)

\* C20: after a request with the start sentinel that opened a new
\* conversation has been answered, the conversation holds exactly one turn,
\* an assistant turn.
C20_GreetingStoresOneAssistantTurn ==
    \A r \in Requests :
        (reqs[r].message = StartSentinel /\ reqs[r].pc = "done"
            /\ OnlyRequestOf(r))
          => (/\ Len(ConversationMessages(messages, ConvOf(r))) = 1
              /\ ConversationMessages(messages, ConvOf(r))[1].role
                     = "assistant")

\* C18: in every state the database can be read in, each conversation's
\* message_count equals the number of message rows stored for it, however
\* the requests interleave and wherever one of them fails.
C18_CountMatchesTurns ==
    \A c \in DOMAIN conversations :
        conversations[c] = Len(ConversationMessages(messages, c))

\* two requests wrote to one conversation; one of them lost a commit
C18_Witness ==
    \E r \in Requests, q \in Requests :
        /\ r # q
        /\ ConvOf(r) = ConvOf(q)
        /\ TurnsOf(r, "user") # {}
        /\ TurnsOf(q, "user") # {}
        /\ reqs[q].pc = "failed_persistence"
        /\ conversations[ConvOf(r)] >= 3

\* the last n elements of a sequence, in order
MostRecent(seq, n) ==
    IF Len(seq) <= n THEN seq ELSE SubSeq(seq, Len(seq) - n + 1, Len(seq))

\* C19: the history a request reads is the most recent HistoryLimit turns
\* of its conversation, oldest first; with more turns stored, the oldest
\* ones are left out.
C19_HistoryIsMostRecent ==
    \A r \in Requests :
        reqs[r].pc = "generate"
            => reqs[r].history = format_conversation_history(
                   MostRecent(ConversationMessages(messages, ConvOf(r)),
                              HistoryLimit))

\* C21: a request whose retrieval found no example at or above
\* min_similarity is still answered, and the reply's metadata.source_count
\* is 0.
C21_NoSourcesStillReplies ==
    \A r \in Requests :
        (Generated(r) /\ reqs[r].retrieval = "empty"
            /\ reqs[r].outcomes[1] = "ok")
          => (/\ reqs[r].pc \in {"save_user", "save_assistant", "respond",
                                 "done"}
              /\ source_count(reqs[r].sources) = 0
              /\ reqs[r].pc = "done" => reqs[r].delivered)

\* a reply without sources has reached the client
C21_Witness ==
    \E r \in Requests :
        /\ reqs[r].retrieval = "empty"
        /\ reqs[r].pc = "done"
        /\ reqs[r].delivered
        /\ TurnsOf(r, "assistant") # {}
        /\ source_count(reqs[r].sources) = 0

\* C22: a search never returns an example whose similarity is strictly
\* below min_similarity, also when fewer than `limit` examples reach it.
C22_NothingBelowFloor ==
    \A a \in DOMAIN results : corpus[results[a]] >= MinSimilarity

\* fewer examples than the limit were returned although the table holds
\* at least `limit` rows, some of them below the floor
C22_Witness ==
    /\ results # <<>>
    /\ Len(results) < SearchLimit
    /\ Len(corpus) >= SearchLimit
    /\ \E i \in DOMAIN corpus : corpus[i] < MinSimilarity

\* C23: the examples a search returns are in descending order of
\* similarity, and examples of equal similarity are in insertion order, so
\* the same table and query always give the same list.
C23_DescendingTiesByInsertion ==
    \A a \in DOMAIN results, b \in DOMAIN results :
        a < b => (\/ corpus[results[a]] > corpus[results[b]]
                  \/ (corpus[results[a]] = corpus[results[b]]
                      /\ results[a] < results[b]))

\* C24: the countdown shown for session k is computed from session k's own
\* unlocked_at and is "Locked" when the user has no such value; session
\* k-1's unlocked_at plays no part (stated for tables whose rows are all
\* for sessions 1..NumSessions).
C24_CountdownFromOwnRecord ==
    (\A p \in progress : p.session_number \in Sessions) =>
    \A u \in Users, k \in 2..NumSessions :
        getUnlockCountdown(getUserProgress(u), k, now) =
            IF Own(u, k) = {} THEN [text |-> "Locked", days |-> 0]
            ELSE IF First(Own(u, k)).unlocked_at = NULL
            THEN [text |-> "Locked", days |-> 0]
            ELSE CountdownText(First(Own(u, k)).unlocked_at - now)

\* C26: POST /session/complete never sets completed_at on a session k > 1
\* that is not unlocked for the user when the call is made.
C26_CompletedOnlyFromUnlocked ==
    [][(calls' # calls
        /\ resp'.session_number \in 2..NumSessions
        /\ ~isUnlocked(resp'.user_id, resp'.session_number))
          => \A p \in FilterBy(progress', resp'.user_id,
                               resp'.session_number) :
                 /\ Own(resp'.user_id, resp'.session_number) # {}
                 /\ p.completed_at =
                      First(Own(resp'.user_id,
                                resp'.session_number)).completed_at]_vars

\* ------------------------------------------------------- chat screen claims

\* C25: the chat screen of a completed session is locked: while the
\* user's session is completed, the screen starts no request to
\* POST /chat/message, neither the greeting nor a user message.
C25_CompletedChatSendsNothing ==
    [][isCompleted(ChatUser, ChatSessionNumber)
          => screen'.pending \subseteq screen.pending]_vars

\* C27: at most one POST /chat/message request of the chat screen is in
\* flight at any time.
C27_OneSendInFlight ==
    Cardinality(screen.pending) <= 1

\* C28: once every request the chat screen sent has returned or failed,
\* the screen is idle: isLoading is false and no message in the list is
\* still marked as loading.
C28_SendsEndIdle ==
    screen.pending = {}
        => /\ ~screen.isLoading
           /\ \A i \in DOMAIN screen.messages : ~screen.messages[i].isLoading

\* --------------------------------------------------- overview screen claims

\* C29: when the fetch of the user's progress fails (network error or a
\* non-ok status), the overview has raised the alert "Couldn't load your
\* session progress."
C29_FetchFailureReported ==
    overview.failed => overview.alert = AlertText

\* C30: pressing a session card never navigates to Chat while the card's
\* session is locked according to the progress the overview holds.
C30_LockedCardDoesNotOpenChat ==
    [][(overview.route = "ChatOverview" /\ overview'.route = "Chat")
          => isSessionUnlocked(overview.progress, overview'.week, now)]_vars

====
